---- MODULE Spec2Model ----
(***************************************************************************)
(* PBStx serial transfer of the miniecu firmware: the frame receiver and   *)
(* sender of fw/pbstx.c and the session worker, instance registry and      *)
(* broadcast of th_comm.c.                                                 *)
(***************************************************************************)
EXTENDS Integers, Sequences, FiniteSets, TLC

(* ---------------- bounds of the model ---------------- *)

\* bytes the receive channel may hold at once
MaxChan == 2

(* ---------------- program constants ---------------- *)

HDR_START == 165

MSG_OK == 0
MSG_RESET == 0 - 2
Q_TIMEOUT == 0 - 1
Q_RESET == 0 - 2

PR_WAIT_START == 0
PR_SEQ == 1
PR_MSGID == 2
PR_LEN == 3
PR_PAYLOAD == 4
PR_CRC == 5

AL_NONE == "none"
AL_NORMAL == "AL_NORMAL"
AL_FAIL == "AL_FAIL"

Byte == 0..255

\* the value a call returned; NoRet while the call has not returned
NoRet == <<>>
Ret(v) == <<v>>

\* bytes the peer puts on the receive channel: the start marker, small
\* header values and 21, the CRC-8 of the frames (0,1,0) and (0,0,1,<<0>>)
RxBytes == {HDR_START, 0, 1, 21}

(* ---------------- CRC engine ---------------- *)

RECURSIVE Xor(_, _)
Xor(a, b) ==
    IF a = 0 THEN b
    ELSE IF b = 0 THEN a
    ELSE (((a % 2) + (b % 2)) % 2) + (2 * Xor(a \div 2, b \div 2))

RECURSIVE CrcShift(_, _)
CrcShift(c, n) ==
    IF n = 0 THEN c
    ELSE CrcShift(IF c >= 128 THEN Xor((2 * c) % 256, 7) ELSE 2 * c, n - 1)

crc_table == [x \in Byte |-> CrcShift(x, 8)]

PIOS_CRC_updateByte(crc, data) == crc_table[Xor(crc, data)]

RECURSIVE PIOS_CRC_updateCRC(_, _)
PIOS_CRC_updateCRC(crc, data) ==
    IF data = <<>> THEN crc
    ELSE PIOS_CRC_updateCRC(PIOS_CRC_updateByte(crc, Head(data)), Tail(data))

\* the sequences over S of length at most n
RECURSIVE SeqsUpTo(_, _)
SeqsUpTo(S, n) ==
    IF n = 0 THEN {<<>>}
    ELSE LET R == SeqsUpTo(S, n - 1)
         IN  R \cup {Append(q, x) : q \in {r \in R : Len(r) = n - 1}, x \in S}

(* ---------------- state ---------------- *)

VARIABLES
    rx_state,       \* static enum rx_state of pbstx_receive
    pkt_crc,        \* static running CRC of pbstx_receive
    seq,            \* static sequence byte of pbstx_receive
    chan,           \* bytes waiting in the input queue of m_stream
    out_msgid,      \* *msgid of the caller
    out_len,        \* *payload_len of the caller
    out_payload,    \* payload[0 .. *payload_len - 1] of the caller
    rx_ret,         \* value returned by the last iteration, NoRet while looping
    rx_path,        \* which statement the last iteration ended at
    rx_prev,        \* rx_state at the top of the last iteration
    rx_byte,        \* byte fetched by chnGetTimeout in the last iteration
    rx_frame,       \* bytes consumed after the start marker of the current frame
    rx_split,       \* a single-byte read failed inside the frame being received
    terminate,      \* chThdShouldTerminate()
    alert,          \* last level given to alert_component(ALS_COMM, ...)
    link,           \* the frames and the corruption the channel was loaded with
    tx_seq,         \* static uint8_t tx_seq of pbstx_send
    tx_mutex,       \* owner of tx_mutex, 0 when unlocked
    s_pc,           \* position of each caller of pbstx_send
    s_seq,          \* header[1] of each caller
    s_msgid,        \* msgid of each caller
    s_payload,      \* payload of each caller
    s_ret,          \* ret of each caller
    s_call,         \* number of calls each caller has made
    wire,           \* bytes written: <<caller, call, place, byte, channel>>
    m_instances,    \* PBStxComm *m_instances[MAX_INSTANCES], 0 for NULL
    w_pc,           \* position of each th_comm_pbstx thread
    instance_id,    \* instance_id of each th_comm_pbstx thread
    w_term,         \* chThdShouldTerminateX() of each thread
    w_ret,          \* value each thread returned
    w_full,         \* every slot was taken from the thread's start to the end of its scan
    w_looped,       \* the thread ran an iteration of its loop (send_status, receive, dispatch)
    w_wrote,        \* the thread stored to a slot of m_instances
    reg_foreign,    \* a thread cleared a slot that held another session
    w_bcasts,       \* debug_printf broadcasts each thread made after its loop
    bc_pc,          \* position of pbstxEncodeSendBroadcast
    bc_i,           \* i of pbstxEncodeSendBroadcast
    bc_msg,         \* the submessage given to pbstxEncodeSendBroadcast
    bc_size,        \* msg->size
    bc_buf,         \* msg->payload[0 .. msg->size - 1]
    bc_ret,         \* ret of pbstxEncodeSendBroadcast
    bc_enc,         \* calls of pbstxEncodeSend made by the broadcast
    bc_log,         \* the send call made for each live slot
    gp_engine_id,   \* int32_t gp_engine_id
    gp_debug_enable_memdump, \* bool gp_debug_enable_memdump
    p_count,        \* param_count()
    p_valid,        \* the indexes param_get_by_idx finds
    p_val,          \* the value of each parameter
    h_pc,           \* position of the dispatch of the received message
    h_field,        \* field returned by pbstxDecodeType
    h_in,           \* the submessage given to the handler
    h_log,          \* calls the handler made: collaborators, replies, broadcasts
    h_before,       \* parameter values and alert level when the dispatch began
    h_addr,         \* address of recv_memory_dump_request
    h_rem,          \* bytes_rem of recv_memory_dump_request
    h_exact,        \* every memdump call so far returned the size it was asked for
    t_gp,           \* gp_engine_id of each of two connected endpoints
    t_net,          \* TimeReference messages on their way to each endpoint
    t_reqs,         \* requests (messages without a diff) the peers have put on the link
    t_replies,      \* replies recv_time_reference has sent
    t_sets,         \* calls of time_set_timestamp
    t_last,         \* the last message an endpoint handled and the reply it sent
    m_stream,       \* static BaseChannel *m_stream, the active channel
    u_pc,           \* position of the caller of pbstx_check_usb
    u_calls,        \* calls of pbstx_check_usb made
    k_pc,           \* position of the session worker in the body of its loop
    k_elapsed       \* chVTTimeElapsedSinceX(send_time) >= MS2ST(gp_status_period)

rxVars == <<rx_state, pkt_crc, seq, chan, out_msgid, out_len, out_payload,
            rx_ret, rx_path, rx_prev, rx_byte, rx_frame, rx_split, terminate>>

txVars == <<tx_seq, tx_mutex, s_pc, s_seq, s_msgid, s_payload, s_ret, s_call,
            wire>>

regVars == <<m_instances, w_pc, instance_id, w_term, w_ret, w_full, w_looped,
             w_wrote, reg_foreign, w_bcasts>>

bcVars == <<bc_pc, bc_i, bc_msg, bc_size, bc_buf, bc_ret, bc_enc, bc_log>>

hVars == <<gp_engine_id, gp_debug_enable_memdump, p_count, p_valid, p_val,
           h_pc, h_field, h_in, h_log, h_before, h_addr, h_rem, h_exact>>

tVars == <<t_gp, t_net, t_reqs, t_replies, t_sets, t_last>>

usbVars == <<m_stream, u_pc, u_calls>>

kVars == <<k_pc, k_elapsed>>

vars == <<rxVars, alert, link, txVars, regVars, bcVars, hVars, tVars, usbVars, kVars>>

\* what the receiver, the sender, the workers and the broadcast leave alone
notRx == <<link, txVars, regVars, bcVars, hVars, tVars, usbVars, kVars>>
notTx == <<rxVars, alert, link, regVars, bcVars, hVars, tVars, usbVars, kVars>>
notReg == <<rxVars, link, txVars, bcVars, hVars, tVars, usbVars, kVars>>
notBc == <<rxVars, link, txVars, w_pc, instance_id, w_term, w_ret, w_full,
           w_looped, w_wrote, reg_foreign, w_bcasts, hVars, tVars, usbVars, kVars>>
notDisp == <<rxVars, link, txVars, regVars, bcVars, tVars, usbVars, kVars>>

\* no frames were loaded on the channel
NoLink == [on |-> FALSE, s |-> 0, m1 |-> 0, p1 |-> <<>>, m2 |-> 0,
           p2 |-> <<>>, pos |-> 0, mask |-> 0]

(* ---------------- pbstx_receive ---------------- *)

RxInit ==
    /\ rx_state = PR_WAIT_START
    /\ pkt_crc = 0
    /\ seq = 0
    /\ out_msgid = 0
    /\ out_len = 0
    /\ out_payload = <<>>
    /\ rx_ret = NoRet
    /\ rx_path = "none"
    /\ rx_prev = PR_WAIT_START
    /\ rx_byte = 0
    /\ rx_frame = <<>>
    /\ rx_split = FALSE
    /\ terminate = FALSE

\* while (!chThdShouldTerminate()) fails: return MSG_RESET
RxTerminated ==
    /\ terminate
    /\ rx_ret' = Ret(MSG_RESET)
    /\ rx_path' = "terminated"
    /\ rx_prev' = rx_state
    /\ UNCHANGED <<rx_state, pkt_crc, seq, chan, out_msgid, out_len,
                   out_payload, rx_byte, rx_frame, rx_split, terminate, alert,
                   notRx>>

\* the static rx_state after a return on a failed chnGetTimeout
StateAfterGetFail_reset(st) == PR_WAIT_START

StateAfterGetFail(st) == st

\* chnGetTimeout gives Q_TIMEOUT or Q_RESET: return it
RxGetFail(r) ==
    /\ ~terminate
    /\ chan = <<>>
    /\ rx_ret' = Ret(r)
    /\ rx_path' = "get_fail"
    /\ rx_prev' = rx_state
    /\ rx_state' = StateAfterGetFail(rx_state)
    /\ rx_split' = (rx_split \/ rx_state # PR_WAIT_START)
    /\ UNCHANGED <<pkt_crc, seq, chan, out_msgid, out_len,
                   out_payload, rx_byte, rx_frame, terminate, alert, notRx>>

\* case PR_WAIT_START
StateAfterStart(b) == IF b = HDR_START THEN PR_SEQ ELSE PR_WAIT_START

RxWaitStart(b) ==
    /\ rx_state' = StateAfterStart(b)
    /\ rx_frame' = IF b = HDR_START THEN <<>> ELSE rx_frame
    /\ chan' = Tail(chan)
    /\ rx_ret' = NoRet
    /\ UNCHANGED <<pkt_crc, seq, out_msgid, out_len, out_payload, alert>>

\* case PR_SEQ
CrcAfterSeq_stale(b) == PIOS_CRC_updateByte(pkt_crc, b)

CrcAfterSeq(b) == PIOS_CRC_updateByte(0, b)

RxSeq(b) ==
    /\ seq' = b
    /\ pkt_crc' = CrcAfterSeq(b)
    /\ rx_state' = PR_MSGID
    /\ rx_frame' = <<b>>
    /\ chan' = Tail(chan)
    /\ rx_ret' = NoRet
    /\ UNCHANGED <<out_msgid, out_len, out_payload, alert>>

\* case PR_MSGID
CrcAfterMsgid(b) == PIOS_CRC_updateByte(pkt_crc, b)

RxMsgid(b) ==
    /\ out_msgid' = b
    /\ pkt_crc' = CrcAfterMsgid(b)
    /\ rx_state' = PR_LEN
    /\ rx_frame' = Append(rx_frame, b)
    /\ chan' = Tail(chan)
    /\ rx_ret' = NoRet
    /\ UNCHANGED <<seq, out_len, out_payload, alert>>

\* state left by a failed bulk read of the payload
StateAfterPayloadFail_keep == PR_PAYLOAD

StateAfterPayloadFail == PR_WAIT_START
AlertAfterPayloadFail == AL_FAIL

\* rx_state = PR_CRC after the payload is read
StateAfterPayload_stay == PR_PAYLOAD

StateAfterPayload == PR_CRC

\* case PR_PAYLOAD: chnReadTimeout of n bytes from the queue q, with the
\* running CRC crc (after the length byte when reached by fall through)
RxPayload(q, n, crc, fr) ==
    IF Len(q) >= n
    THEN /\ out_payload' = SubSeq(q, 1, n)
         /\ chan' = SubSeq(q, n + 1, Len(q))
         /\ pkt_crc' = PIOS_CRC_updateCRC(crc, SubSeq(q, 1, n))
         /\ rx_state' = StateAfterPayload
         /\ rx_frame' = fr \o SubSeq(q, 1, n)
         /\ rx_ret' = NoRet
         /\ rx_path' = "byte"
         /\ UNCHANGED alert
    ELSE /\ \E r \in {Q_TIMEOUT, Q_RESET} : rx_ret' = Ret(r)
         /\ out_payload' = q
         /\ chan' = <<>>
         /\ pkt_crc' = crc
         /\ rx_state' = StateAfterPayloadFail
         /\ alert' = AlertAfterPayloadFail
         /\ rx_frame' = fr \o q
         /\ rx_path' = "payload_fail"

\* case PR_LEN, falling through to PR_PAYLOAD when the length is not zero
RxLen(b) ==
    /\ out_len' = b
    /\ UNCHANGED <<seq, out_msgid>>
    /\ IF b = 0
       THEN /\ pkt_crc' = PIOS_CRC_updateByte(pkt_crc, b)
            /\ rx_state' = PR_CRC
            /\ rx_frame' = Append(rx_frame, b)
            /\ chan' = Tail(chan)
            /\ rx_ret' = NoRet
            /\ rx_path' = "byte"
            /\ UNCHANGED <<out_payload, alert>>
       ELSE RxPayload(Tail(chan), b, PIOS_CRC_updateByte(pkt_crc, b),
                      Append(rx_frame, b))

\* case PR_CRC
CrcMatch_any(crc, b) == TRUE

CrcMatch(crc, b) == crc = b

StateAfterCrc_seq == PR_SEQ

StateAfterCrc == PR_WAIT_START

RxCrc(b) ==
    /\ rx_state' = StateAfterCrc
    /\ chan' = Tail(chan)
    /\ IF CrcMatch(pkt_crc, b)
       THEN /\ alert' = AL_NORMAL
            /\ rx_ret' = Ret(MSG_OK)
       ELSE /\ alert' = AL_FAIL
            /\ rx_ret' = Ret(MSG_RESET)
    /\ UNCHANGED <<pkt_crc, seq, out_msgid, out_len, out_payload, rx_frame>>

\* one iteration of the loop that reads a byte and runs the switch
RxIter ==
    /\ ~terminate
    /\ chan # <<>>
    /\ rx_prev' = rx_state
    /\ rx_byte' = Head(chan)
    /\ rx_split' = IF rx_state = PR_WAIT_START /\ Head(chan) = HDR_START
                   THEN FALSE ELSE rx_split
    /\ UNCHANGED <<terminate, notRx>>
    /\ CASE rx_state = PR_WAIT_START ->
                RxWaitStart(Head(chan)) /\ rx_path' = "byte"
         [] rx_state = PR_SEQ ->
                RxSeq(Head(chan)) /\ rx_path' = "byte"
         [] rx_state = PR_MSGID ->
                RxMsgid(Head(chan)) /\ rx_path' = "byte"
         [] rx_state = PR_LEN ->
                RxLen(Head(chan))
         [] rx_state = PR_PAYLOAD ->
                /\ RxPayload(Tail(chan), out_len, pkt_crc, rx_frame)
                /\ UNCHANGED <<seq, out_msgid, out_len>>
         [] rx_state = PR_CRC ->
                RxCrc(Head(chan)) /\ rx_path' = "byte"
         [] OTHER ->
                /\ rx_state' = PR_WAIT_START
                /\ chan' = Tail(chan)
                /\ rx_ret' = NoRet
                /\ rx_path' = "byte"
                /\ UNCHANGED <<pkt_crc, seq, out_msgid, out_len, out_payload,
                               rx_frame, alert>>

pbstx_receive ==
    \/ RxTerminated
    \/ \E r \in {Q_TIMEOUT, Q_RESET} : RxGetFail(r)
    \/ RxIter

(* ---------------- the frame written by pbstx_send ---------------- *)

\* uint8_t header[] = { HDR_START, tx_seq++, msgid, payload_len }
TxHeader(s, m, n) == <<HDR_START, s, m, n>>

\* crc over header + 1, then over the payload when there is one
TxCrc(hdr, p) ==
    IF Len(p) > 0
    THEN PIOS_CRC_updateCRC(PIOS_CRC_updateCRC(0, Tail(hdr)), p)
    ELSE PIOS_CRC_updateCRC(0, Tail(hdr))

\* the bytes of a send in which no write fails
TxFrame(s, m, p) ==
    TxHeader(s, m, Len(p)) \o p \o <<TxCrc(TxHeader(s, m, Len(p)), p)>>

(* ---------------- th_comm_pbstx and the instance registry ---------------- *)

MAX_INSTANCES == 2

\* th_comm_pbstx threads created by pbstxCreate, each running once
NumWorkers == 3

Workers == 1..NumWorkers
Slots == 0..(MAX_INSTANCES - 1)
NULL == 0

RegInit ==
    /\ m_instances = [i \in Slots |-> NULL]
    /\ w_pc = [w \in Workers |-> "idle"]
    /\ instance_id = [w \in Workers |-> 0]
    /\ w_term = [w \in Workers |-> FALSE]
    /\ w_ret = [w \in Workers |-> NoRet]
    /\ w_full = [w \in Workers |-> FALSE]
    /\ w_looped = [w \in Workers |-> FALSE]
    /\ w_wrote = [w \in Workers |-> FALSE]
    /\ reg_foreign = FALSE
    /\ w_bcasts = [w \in Workers |-> 0]

AllTaken == \A i \in Slots : m_instances[i] # NULL

\* pbstxCreate: the thread starts, instance_id = 0
WorkerStart(w) ==
    /\ w_pc[w] = "idle"
    /\ w_pc' = [w_pc EXCEPT ![w] = "scan"]
    /\ instance_id' = [instance_id EXCEPT ![w] = 0]
    /\ w_full' = [w_full EXCEPT ![w] = AllTaken]
    /\ UNCHANGED <<m_instances, w_term, w_ret, w_looped, w_wrote,
                   reg_foreign, w_bcasts, alert>>
    /\ UNCHANGED notReg

\* the test m_instances[instance_id] == NULL of the registration loop
WorkerScan(w) ==
    /\ w_pc[w] = "scan"
    /\ IF m_instances[instance_id[w]] = NULL
       THEN /\ w_pc' = [w_pc EXCEPT ![w] = "claim"]
            /\ UNCHANGED instance_id
       ELSE /\ instance_id' = [instance_id EXCEPT ![w] = @ + 1]
            /\ w_pc' = [w_pc EXCEPT ![w] =
                           IF instance_id[w] + 1 < MAX_INSTANCES
                           THEN "scan" ELSE "check"]
    /\ UNCHANGED <<m_instances, w_term, w_ret, w_full, w_looped, w_wrote, reg_foreign, w_bcasts, alert>>
    /\ UNCHANGED notReg

\* m_instances[instance_id] = &self; break
WorkerClaim(w) ==
    /\ w_pc[w] = "claim"
    /\ m_instances' = [m_instances EXCEPT ![instance_id[w]] = w]
    /\ w_wrote' = [w_wrote EXCEPT ![w] = TRUE]
    /\ w_pc' = [w_pc EXCEPT ![w] = "check"]
    /\ UNCHANGED <<instance_id, w_term, w_ret, w_full, w_looped,
                   reg_foreign, w_bcasts, alert>>
    /\ UNCHANGED notReg

\* if (instance_id >= MAX_INSTANCES) return MSG_RESET
Exhausted_off(id) == id > MAX_INSTANCES

Exhausted(id) == id >= MAX_INSTANCES

WorkerCheck(w) ==
    /\ w_pc[w] = "check"
    /\ IF Exhausted(instance_id[w])
       THEN /\ w_ret' = [w_ret EXCEPT ![w] = Ret(MSG_RESET)]
            /\ w_pc' = [w_pc EXCEPT ![w] = "done"]
            /\ UNCHANGED alert
       ELSE /\ alert' = AL_NORMAL
            /\ w_pc' = [w_pc EXCEPT ![w] = "loop"]
            /\ UNCHANGED w_ret
    /\ UNCHANGED <<m_instances, instance_id, w_term, w_full, w_looped,
                   w_wrote, reg_foreign, w_bcasts>>
    /\ UNCHANGED notReg

\* one iteration of while (!chThdShouldTerminateX()): send_status when the
\* period has elapsed, then pbstxReceive and the dispatch
WorkerIter(w) ==
    /\ w_pc[w] = "loop"
    /\ ~w_term[w]
    /\ w_looped' = [w_looped EXCEPT ![w] = TRUE]
    /\ UNCHANGED <<m_instances, w_pc, instance_id, w_term, w_ret, w_full,
                   w_wrote, reg_foreign, w_bcasts, alert>>
    /\ UNCHANGED notReg

\* the loop ends when chThdShouldTerminateX()
WorkerLoopExit(w) ==
    /\ w_pc[w] = "loop"
    /\ w_term[w]
    /\ w_pc' = [w_pc EXCEPT ![w] = "dereg"]
    /\ UNCHANGED <<m_instances, instance_id, w_term, w_ret, w_full, w_looped,
                   w_wrote, reg_foreign, w_bcasts, alert>>
    /\ UNCHANGED notReg

\* if (m_instances[instance_id] != NULL) m_instances[instance_id] = NULL
WorkerDereg(w) ==
    /\ w_pc[w] = "dereg"
    /\ IF instance_id[w] \in Slots /\ m_instances[instance_id[w]] # NULL
       THEN /\ m_instances' = [m_instances EXCEPT ![instance_id[w]] = NULL]
            /\ w_wrote' = [w_wrote EXCEPT ![w] = TRUE]
            /\ reg_foreign' =
                  (reg_foreign \/ m_instances[instance_id[w]] # w)
            /\ w_full' = [v \in Workers |->
                             IF w_pc[v] = "scan" THEN FALSE ELSE w_full[v]]
       ELSE UNCHANGED <<m_instances, w_wrote, reg_foreign, w_full>>
    /\ w_pc' = [w_pc EXCEPT ![w] = "final"]
    /\ UNCHANGED <<instance_id, w_term, w_ret, w_looped, w_bcasts, alert>>
    /\ UNCHANGED notReg

\* debug_printf(DP_DEBUG, "pbstx%d: terminated"); return MSG_OK
WorkerFinal(w) ==
    /\ w_pc[w] = "final"
    /\ w_ret' = [w_ret EXCEPT ![w] = Ret(MSG_OK)]
    /\ w_pc' = [w_pc EXCEPT ![w] = "done"]
    /\ w_bcasts' = [w_bcasts EXCEPT ![w] = @ + 1]
    /\ UNCHANGED <<m_instances, instance_id, w_term, w_full, w_looped,
                   w_wrote, reg_foreign, alert>>
    /\ UNCHANGED notReg

\* chThdTerminate on the thread; the flag is read by the loop test only, so
\* a request made before the loop is taken when the loop is reached
WorkerTerminate(w) ==
    /\ w_pc[w] = "loop"
    /\ ~w_term[w]
    /\ w_term' = [w_term EXCEPT ![w] = TRUE]
    /\ UNCHANGED <<m_instances, w_pc, instance_id, w_ret, w_full, w_looped,
                   w_wrote, reg_foreign, w_bcasts, alert>>
    /\ UNCHANGED notReg

th_comm_pbstx(w) ==
    \/ WorkerStart(w)
    \/ WorkerScan(w)
    \/ WorkerClaim(w)
    \/ WorkerCheck(w)
    \/ WorkerIter(w)
    \/ WorkerLoopExit(w)
    \/ WorkerDereg(w)
    \/ WorkerFinal(w)

(* ---------------- pbstxEncodeSendBroadcast ---------------- *)

\* longest submessage body given to the broadcast
MaxBody == 1

\* a submessage: known says that messagetype is one of miniecu_Message_fields,
\* fits that pb_encode_submessage succeeds on it
BcMsgs ==
    [known : BOOLEAN, fits : BOOLEAN, tag : {3}, body : SeqsUpTo({5}, MaxBody)]

\* results of pbstxSend
SendResults == {MSG_OK, Q_TIMEOUT, MSG_RESET}

\* pb_encode_tag_for_field and pb_encode_submessage: the tag of a
\* length-delimited field, the length of the body, the body
Encoded(m) == <<(m.tag * 8) + 2, Len(m.body)>> \o m.body

EncodeOk(m) == m.known /\ m.fits

NoMsg == [known |-> FALSE, fits |-> FALSE, tag |-> 3, body |-> <<>>]

BcInit ==
    /\ bc_pc = "idle"
    /\ bc_i = 0
    /\ bc_msg = NoMsg
    /\ bc_size = 0
    /\ bc_buf = <<>>
    /\ bc_ret = MSG_OK
    /\ bc_enc = 0
    /\ bc_log = <<>>

\* entry: ret = MSG_OK; msg->size = 0; i = 0
BcastCall(m) ==
    /\ bc_pc \in {"idle", "done"}
    /\ bc_pc' = "loop"
    /\ bc_msg' = m
    /\ bc_i' = 0
    /\ bc_size' = 0
    /\ bc_ret' = MSG_OK
    /\ bc_enc' = 0
    /\ bc_log' = <<>>
    /\ UNCHANGED <<bc_buf, m_instances, alert>>
    /\ UNCHANGED notBc

\* if (msg->size == 0) encode and send, else send what was encoded
NeedEncode_always(size) == TRUE

NeedEncode(size) == size = 0

\* if (sret < 0) ret = sret
RetAfter_last(ret, sret) == sret

RetAfter(ret, sret) == IF sret < 0 THEN sret ELSE ret

\* pbstxEncodeSend on the session in slot i, pbstxSend returning r
BcastEncodeSend(i, r) ==
    /\ bc_enc' = bc_enc + 1
    /\ IF EncodeOk(bc_msg)
       THEN /\ bc_size' = Len(Encoded(bc_msg))
            /\ bc_buf' = Encoded(bc_msg)
            /\ bc_log' = Append(bc_log,
                   [slot |-> i, dev |-> m_instances[i], kind |-> "encode_send",
                    sent |-> TRUE, size |-> Len(Encoded(bc_msg)),
                    payload |-> Encoded(bc_msg), sret |-> r])
            /\ bc_ret' = RetAfter(bc_ret, r)
            /\ UNCHANGED alert
       ELSE /\ alert' = AL_FAIL
            /\ bc_log' = Append(bc_log,
                   [slot |-> i, dev |-> m_instances[i], kind |-> "encode_send",
                    sent |-> FALSE, size |-> bc_size, payload |-> bc_buf,
                    sret |-> MSG_RESET])
            /\ bc_ret' = RetAfter(bc_ret, MSG_RESET)
            /\ UNCHANGED <<bc_size, bc_buf>>

\* pbstxSend of the encoded message on the session in slot i, returning r
BcastSend(i, r) ==
    /\ bc_log' = Append(bc_log,
           [slot |-> i, dev |-> m_instances[i], kind |-> "send",
            sent |-> TRUE, size |-> bc_size, payload |-> bc_buf, sret |-> r])
    /\ bc_ret' = RetAfter(bc_ret, r)
    /\ UNCHANGED <<bc_size, bc_buf, bc_enc, alert>>

\* one iteration of for (i = 0; i < MAX_INSTANCES; i++)
BcastVisit(r) ==
    /\ bc_pc = "loop"
    /\ bc_i < MAX_INSTANCES
    /\ bc_i' = bc_i + 1
    /\ IF m_instances[bc_i] # NULL
       THEN IF NeedEncode(bc_size)
            THEN BcastEncodeSend(bc_i, r)
            ELSE BcastSend(bc_i, r)
       ELSE UNCHANGED <<bc_size, bc_buf, bc_ret, bc_enc, bc_log, alert>>
    /\ UNCHANGED <<bc_pc, bc_msg, m_instances>>
    /\ UNCHANGED notBc

\* return ret
BcastReturn ==
    /\ bc_pc = "loop"
    /\ bc_i >= MAX_INSTANCES
    /\ bc_pc' = "done"
    /\ UNCHANGED <<bc_i, bc_msg, bc_size, bc_buf, bc_ret, bc_enc, bc_log,
                   m_instances, alert>>
    /\ UNCHANGED notBc

pbstxEncodeSendBroadcast ==
    \/ \E m \in BcMsgs : BcastCall(m)
    \/ \E r \in SendResults : BcastVisit(r)
    \/ BcastReturn

(* ---------------- the dispatch of a received message ---------------- *)

MEMDUMP_SIZE == 64

\* longest field stream of a received payload
MaxFields == 2
\* most parameters the store holds
MaxParams == 3
\* largest size of a memory dump request
MaxDumpSize == 130

PB_WT_VARINT == 0
PB_WT_STRING == 2

\* the submessage slots of miniecu.Message, by tag
miniecu_Message_fields ==
    <<"Status", "TimeReference", "Command", "ParamRequest", "ParamSet",
      "LogRequest", "MemoryDumpRequest">>

\* pbstxDecodeType found no submessage
NoField == "NULL"

\* tags of a payload: the slots of miniecu.Message and one it does not have
Tags == (DOMAIN miniecu_Message_fields) \cup {15}
Fields == [tag : Tags, wt : {PB_WT_VARINT, PB_WT_STRING}]
Streams == SeqsUpTo(Fields, MaxFields)

\* the first length-delimited field whose tag is a slot of miniecu.Message;
\* every other field is skipped
RECURSIVE pbstxDecodeType(_)
pbstxDecodeType(stream) ==
    IF stream = <<>> THEN NoField
    ELSE IF /\ Head(stream).wt = PB_WT_STRING
            /\ Head(stream).tag \in DOMAIN miniecu_Message_fields
         THEN miniecu_Message_fields[Head(stream).tag]
         ELSE pbstxDecodeType(Tail(stream))

GpIds == {0, 1}
EngineIds == {0, 1, 2}
DumpSizes == {0, 1, MEMDUMP_SIZE, MEMDUMP_SIZE + 1, MaxDumpSize}
DumpTypes == {"RAM", "FLASH", "other"}

\* what pbstxDecodeMessage gives for each submessage type; ok is its result
\* a body that does not decode
NoBody == [ok |-> FALSE]

TimeReferences ==
    [ok : {TRUE}, engine_id : EngineIds, timestamp_ms : {50},
     has_system_time : {FALSE}, system_time : {0},
     has_timediff : BOOLEAN, timediff : {0}]

Bodies(field) ==
    CASE field = "Command" ->
             [ok : {TRUE}, engine_id : EngineIds, operation : {4},
              has_response : BOOLEAN, response : {0}] \cup {NoBody}
      [] field = "ParamSet" ->
             [ok : {TRUE}, engine_id : EngineIds, param_id : {0, MaxParams},
              value : {7}] \cup {NoBody}
      [] field = "ParamRequest" ->
             [ok : {TRUE}, engine_id : EngineIds,
              has_param_id : BOOLEAN, param_id : {0, MaxParams},
              has_param_index : BOOLEAN, param_index : {0, MaxParams}]
                \cup {NoBody}
      [] field = "TimeReference" -> TimeReferences \cup {NoBody}
      [] field = "LogRequest" -> {[ok |-> TRUE], NoBody}
      [] field = "MemoryDumpRequest" ->
             [ok : {TRUE}, engine_id : EngineIds, type : DumpTypes,
              stream_id : {3}, address : {4096}, size : DumpSizes]
                \cup {NoBody}
      [] OTHER -> {[ok |-> TRUE]}

\* entries of h_log
Call(name, arg) == [op |-> "call", type |-> name, msg |-> arg]
Send(type, m) == [op |-> "send", type |-> type, msg |-> m]
Bcast(type, m) == [op |-> "bcast", type |-> type, msg |-> m]

HInit ==
    /\ gp_engine_id = 1
    /\ gp_debug_enable_memdump = FALSE
    /\ p_count = 0
    /\ p_valid = {}
    /\ p_val = <<>>
    /\ h_pc = "idle"
    /\ h_field = NoField
    /\ h_in = NoBody
    /\ h_log = <<>>
    /\ h_before = [p_val |-> <<>>, alert |-> AL_NONE]
    /\ h_addr = 0
    /\ h_rem = 0
    /\ h_exact = TRUE

\* the handler returns after the calls in log
Done(log) ==
    /\ h_log' = log
    /\ h_pc' = "done"
    /\ UNCHANGED <<p_val, alert, h_addr, h_rem, h_exact>>

\* pbstxDecodeMessage failed: alert_component(ALS_COMM, AL_FAIL); return
DecodeFail ==
    /\ h_log' = <<>>
    /\ h_pc' = "done"
    /\ alert' = AL_FAIL
    /\ UNCHANGED <<p_val, h_addr, h_rem, h_exact>>

\* engine_id != (unsigned)gp_engine_id; identities are not negative, so the
\* conversion keeps the value
IdMatch_any(eid) == TRUE

IdMatch(eid) == eid = gp_engine_id

\* engine_id != (unsigned)gp_engine_id && engine_id != 0
IdMatchOrBroadcast(gp, eid) == eid = gp \/ eid = 0

\* debug_printf: a StatusText broadcast
debug_printf(severity, text) ==
    Bcast("StatusText",
          [engine_id |-> gp_engine_id, severity |-> severity, text |-> text])

\* --- recv_time_reference

\* don't accept response messages
IsReply_never(m) == FALSE

IsReply(m) == m.has_timediff

TimeAnswers(gp, m) ==
    m.ok /\ IdMatchOrBroadcast(gp, m.engine_id) /\ ~IsReply(m)

TimeReply(gp, m, systime, diff) ==
    [m EXCEPT !.engine_id = gp, !.has_system_time = TRUE,
              !.system_time = systime, !.has_timediff = TRUE,
              !.timediff = diff]

SysTimes == {10}
TimeDiffs == {0, 5}

recv_time_reference(m) ==
    IF ~m.ok THEN DecodeFail
    ELSE IF ~TimeAnswers(gp_engine_id, m) THEN Done(<<>>)
    ELSE \E st \in SysTimes, diff \in TimeDiffs :
            Done(<<Call("time_get_systime", 0),
                   Call("time_set_timestamp", m.timestamp_ms),
                   Send("TimeReference", TimeReply(gp_engine_id, m, st, diff))>>)

\* --- recv_command

\* don't accept response
IsResponse_never(m) == FALSE

IsResponse(m) == m.has_response

CmdResponses == {0, 1}

recv_command(m) ==
    IF ~m.ok THEN DecodeFail
    ELSE IF ~IdMatch(m.engine_id) THEN Done(<<>>)
    ELSE IF IsResponse(m) THEN Done(<<>>)
    ELSE \E resp \in CmdResponses :
            Done(<<Call("command_request", m.operation),
                   Send("Command",
                        [m EXCEPT !.has_response = TRUE, !.response = resp])>>)

\* --- the parameter store (param.c)

param_get(id) == id \in p_valid
param_get_by_idx(idx) == idx \in p_valid

ParamValue(id, idx) ==
    [engine_id |-> gp_engine_id, param_id |-> id, param_index |-> idx,
     param_count |-> p_count, value |-> p_val[idx + 1]]

\* --- recv_param_request

\* a lookup that fails in the dump: continue
DumpAfterFail_stop(idx, count) == count

DumpAfterFail(idx, count) == idx + 1

\* for (idx = 0; idx < count; idx++) of the request for all parameters
RECURSIVE DumpAll(_, _)
DumpAll(idx, count) ==
    IF idx >= count THEN <<>>
    ELSE IF ~param_get_by_idx(idx)
         THEN DumpAll(DumpAfterFail(idx, count), count)
         ELSE <<Bcast("ParamValue", ParamValue(idx, idx))>>
                 \o DumpAll(idx + 1, count)

recv_param_request(m) ==
    IF ~m.ok THEN DecodeFail
    ELSE IF ~IdMatchOrBroadcast(gp_engine_id, m.engine_id) THEN Done(<<>>)
    ELSE IF m.has_param_id
         THEN IF ~param_get(m.param_id) THEN Done(<<>>)
              ELSE Done(<<Bcast("ParamValue",
                                ParamValue(m.param_id, m.param_id))>>)
    ELSE IF m.has_param_index
         THEN IF ~param_get_by_idx(m.param_index) THEN Done(<<>>)
              ELSE Done(<<Bcast("ParamValue",
                                ParamValue(m.param_index, m.param_index))>>)
    ELSE Done(DumpAll(0, p_count))

\* --- recv_param_set

ParamResults == {"PARAM_OK", "PARAM_LIMIT", "PARAM_ERR"}
ParamLimit == 5

\* param_set: the stored value after a set that gave r
ValueAfterSet(old, v, r) ==
    IF r = "PARAM_OK" THEN v ELSE IF r = "PARAM_LIMIT" THEN ParamLimit ELSE old

recv_param_set(m) ==
    IF ~m.ok THEN DecodeFail
    ELSE IF ~IdMatch(m.engine_id) THEN Done(<<>>)
    ELSE \E r \in IF param_get(m.param_id) THEN ParamResults ELSE {"PARAM_ERR"} :
            /\ h_pc' = "done"
            /\ p_val' = IF param_get(m.param_id)
                        THEN [p_val EXCEPT ![m.param_id + 1] =
                                 ValueAfterSet(@, m.value, r)]
                        ELSE p_val
            /\ h_log' =
                  <<Call("param_set", [param_id |-> m.param_id, value |-> m.value])>>
                  \o (IF r \in {"PARAM_OK", "PARAM_LIMIT"}
                      THEN <<Bcast("ParamValue",
                                   [ParamValue(m.param_id, m.param_id)
                                      EXCEPT !.value =
                                         ValueAfterSet(p_val[m.param_id + 1],
                                                       m.value, r)])>>
                      ELSE <<>>)
            /\ UNCHANGED <<alert, h_addr, h_rem, h_exact>>

\* --- recv_log_request

recv_log_request(m) == IF ~m.ok THEN DecodeFail ELSE Done(<<>>)

\* --- recv_memory_dump_request

\* (bytes_rem > MEMDUMP_SIZE)? MEMDUMP_SIZE : bytes_rem
PageAsk_full(rem) == MEMDUMP_SIZE

PageAsk(rem) == IF rem > MEMDUMP_SIZE THEN MEMDUMP_SIZE ELSE rem

\* results of memdump_int_ram and memdump_ext_flash asked for n bytes
ReadResults(n) == {n, n - 1, 0 - 1}

recv_memory_dump_request(m) ==
    IF ~m.ok THEN DecodeFail
    ELSE IF ~IdMatch(m.engine_id) THEN Done(<<>>)
    ELSE IF m.type \notin {"RAM", "FLASH"}
         THEN Done(<<debug_printf("DP_ERROR", "MemDump: unknown type")>>)
    ELSE /\ h_pc' = "memdump"
         /\ h_addr' = m.address
         /\ h_rem' = m.size
         /\ h_exact' = TRUE
         /\ h_log' = <<>>
         /\ UNCHANGED <<p_val, alert>>

\* one iteration of while (bytes_rem > 0)
MemDumpPage ==
    /\ h_pc = "memdump"
    /\ h_rem > 0
    /\ \E ret \in ReadResults(PageAsk(h_rem)) :
          LET call == Call(IF h_in.type = "RAM" THEN "memdump_int_ram"
                           ELSE "memdump_ext_flash",
                           [address |-> h_addr, size |-> PageAsk(h_rem)])
          IN  IF ret <= 0
              THEN /\ h_log' = h_log \o
                         <<call, debug_printf("DP_ERROR", "MemDump: read error")>>
                   /\ h_pc' = "done"
                   /\ UNCHANGED <<h_addr, h_rem, h_exact>>
              ELSE /\ h_log' = h_log \o
                         <<call,
                           Send("MemoryDumpPage",
                                [engine_id |-> gp_engine_id,
                                 stream_id |-> h_in.stream_id,
                                 address |-> h_addr, size |-> ret])>>
                   /\ h_addr' = h_addr + ret
                   /\ h_rem' = h_rem - ret
                   /\ h_exact' = (h_exact /\ ret = PageAsk(h_rem))
                   /\ UNCHANGED h_pc
    /\ UNCHANGED <<gp_engine_id, gp_debug_enable_memdump, p_count, p_valid,
                   p_val, h_field, h_in, h_before, alert>>
    /\ UNCHANGED notDisp

\* while (bytes_rem > 0) fails: return
MemDumpEnd ==
    /\ h_pc = "memdump"
    /\ h_rem <= 0
    /\ h_pc' = "done"
    /\ UNCHANGED <<gp_engine_id, gp_debug_enable_memdump, p_count, p_valid,
                   p_val, h_field, h_in, h_log, h_before, h_addr, h_rem,
                   h_exact, alert>>
    /\ UNCHANGED notDisp

\* --- the dispatch of th_comm_pbstx on a received payload

\* field == miniecu_MemoryDumpRequest_fields && gp_debug_enable_memdump
MemdumpEnabled_always == TRUE

MemdumpEnabled == gp_debug_enable_memdump

Handled(field) ==
    \/ field \in {"ParamRequest", "ParamSet", "TimeReference", "Command",
                  "LogRequest"}
    \/ field = "MemoryDumpRequest" /\ MemdumpEnabled

\* pb_istream_from_buffer and pbstxDecodeType on the received payload
DecodeType(stream) ==
    /\ h_pc = "idle"
    /\ h_pc' = "decoded"
    /\ h_field' = pbstxDecodeType(stream)
    /\ UNCHANGED <<gp_engine_id, gp_debug_enable_memdump, p_count, p_valid,
                   p_val, h_in, h_log, h_before, h_addr, h_rem, h_exact, alert>>
    /\ UNCHANGED notDisp

\* the if-else chain on field; m is what pbstxDecodeMessage gives the handler
Dispatch(m) ==
    /\ h_pc = "decoded"
    /\ h_in' = m
    /\ h_before' = [p_val |-> p_val, alert |-> alert]
    /\ IF ~Handled(h_field) THEN Done(<<>>)
       ELSE CASE h_field = "ParamRequest" -> recv_param_request(m)
              [] h_field = "ParamSet" -> recv_param_set(m)
              [] h_field = "TimeReference" -> recv_time_reference(m)
              [] h_field = "Command" -> recv_command(m)
              [] h_field = "LogRequest" -> recv_log_request(m)
              [] h_field = "MemoryDumpRequest" -> recv_memory_dump_request(m)
    /\ UNCHANGED <<gp_engine_id, gp_debug_enable_memdump, p_count, p_valid,
                   h_field>>
    /\ UNCHANGED notDisp

\* the end of the loop body: instream, field and the handler's locals are gone
DispatchEnd ==
    /\ h_pc = "done"
    /\ h_pc' = "idle"
    /\ h_field' = NoField
    /\ h_in' = NoBody
    /\ h_log' = <<>>
    /\ h_before' = [p_val |-> p_val, alert |-> alert]
    /\ h_addr' = 0
    /\ h_rem' = 0
    /\ h_exact' = TRUE
    /\ UNCHANGED <<gp_engine_id, gp_debug_enable_memdump, p_count, p_valid,
                   p_val, alert>>
    /\ UNCHANGED notDisp

(* ---------------- two endpoints exchanging TimeReference ---------------- *)

\* messages the peers put on the link between the two endpoints
MaxRequests == 2

Endpoints == {1, 2}
Other(e) == 3 - e

NoLast == [to |-> 0, msg |-> NoBody, reply |-> <<>>, set |-> FALSE]

TimeInit ==
    /\ t_gp = [e \in Endpoints |-> 1]
    /\ t_net = [e \in Endpoints |-> <<>>]
    /\ t_reqs = [sent |-> 0, plain |-> 0]
    /\ t_replies = 0
    /\ t_sets = 0
    /\ t_last = NoLast

notTime == <<rxVars, alert, link, txVars, regVars, bcVars, hVars, usbVars, kVars>>

\* a TimeReference arrives at endpoint e from outside the pair
TimePut(e, m) ==
    /\ t_reqs.sent < MaxRequests
    /\ t_net' = [t_net EXCEPT ![e] = Append(@, m)]
    /\ t_reqs' = [sent |-> t_reqs.sent + 1,
                  plain |-> t_reqs.plain + (IF m.has_timediff THEN 0 ELSE 1)]
    /\ UNCHANGED <<t_gp, t_replies, t_sets, t_last>>
    /\ UNCHANGED notTime

\* recv_time_reference of endpoint e on the next message; its reply goes to
\* the other endpoint
TimeHandle(e) ==
    /\ t_net[e] # <<>>
    /\ t_replies <= t_reqs.sent
    /\ LET m == Head(t_net[e])
       IN  IF TimeAnswers(t_gp[e], m)
           THEN \E st \in SysTimes, diff \in TimeDiffs :
                   LET reply == TimeReply(t_gp[e], m, st, diff)
                   IN  /\ t_net' = [t_net EXCEPT ![e] = Tail(@),
                                                 ![Other(e)] = Append(@, reply)]
                       /\ t_replies' = t_replies + 1
                       /\ t_sets' = t_sets + 1
                       /\ t_last' = [to |-> e, msg |-> m, reply |-> <<reply>>,
                                     set |-> TRUE]
           ELSE /\ t_net' = [t_net EXCEPT ![e] = Tail(@)]
                /\ t_last' = [to |-> e, msg |-> m, reply |-> <<>>,
                              set |-> FALSE]
                /\ UNCHANGED <<t_replies, t_sets>>
    /\ UNCHANGED <<t_gp, t_reqs>>
    /\ UNCHANGED notTime

(* ---------------- pbstx_send ---------------- *)

\* threads that call pbstx_send
NumSenders == 2
\* calls of pbstx_send made in all
MaxSends == 2

Senders == 1..NumSenders
TxMsgids == {7}
TxPayloads == {<<>>, <<9>>}

RECURSIVE SumUpTo(_, _)
SumUpTo(f, n) == IF n = 0 THEN 0 ELSE f[n] + SumUpTo(f, n - 1)

SessInit ==
    /\ k_pc = "top"
    /\ k_elapsed = TRUE

UsbInit ==
    /\ m_stream = "PBSTX_SD"
    /\ u_pc = "idle"
    /\ u_calls = 0

TxInit(s) ==
    /\ tx_seq = s
    /\ tx_mutex = 0
    /\ s_pc = [t \in Senders |-> "idle"]
    /\ s_seq = [t \in Senders |-> 0]
    /\ s_msgid = [t \in Senders |-> 0]
    /\ s_payload = [t \in Senders |-> <<>>]
    /\ s_ret = [t \in Senders |-> NoRet]
    /\ s_call = [t \in Senders |-> 0]
    /\ wire = <<>>

\* the first n of the bytes bs, as written by call s_call[t] of thread t to
\* m_stream, bs[1] being byte number first of its frame
Written(t, bs, first, n) ==
    [i \in 1..n |-> <<t, s_call[t], first + i - 1, bs[i], m_stream>>]

\* entry: the read of tx_seq in header[] = { HDR_START, tx_seq++, ... }
SendLoadSeq(t, m, p) ==
    /\ s_pc[t] = "idle"
    /\ SumUpTo(s_call, NumSenders) < MaxSends
    /\ s_call' = [s_call EXCEPT ![t] = @ + 1]
    /\ s_msgid' = [s_msgid EXCEPT ![t] = m]
    /\ s_payload' = [s_payload EXCEPT ![t] = p]
    /\ s_seq' = [s_seq EXCEPT ![t] = tx_seq]
    /\ s_ret' = [s_ret EXCEPT ![t] = NoRet]
    /\ s_pc' = [s_pc EXCEPT ![t] = "store"]
    /\ UNCHANGED <<tx_seq, tx_mutex, wire>>
    /\ UNCHANGED notTx

\* the write of tx_seq in tx_seq++
SendStoreSeq(t) ==
    /\ s_pc[t] = "store"
    /\ tx_seq' = (s_seq[t] + 1) % 256
    /\ s_pc' = [s_pc EXCEPT ![t] = "lock"]
    /\ UNCHANGED <<tx_mutex, s_seq, s_msgid, s_payload, s_ret, s_call, wire>>
    /\ UNCHANGED notTx

\* chMtxLock(&tx_mutex)
MtxFree_any == TRUE

MtxFree == tx_mutex = 0

SendLock(t) ==
    /\ s_pc[t] = "lock"
    /\ MtxFree
    /\ tx_mutex' = t
    /\ s_pc' = [s_pc EXCEPT ![t] = "header"]
    /\ UNCHANGED <<tx_seq, s_seq, s_msgid, s_payload, s_ret, s_call, wire>>
    /\ UNCHANGED notTx

\* if (ret == Q_TIMEOUT || ret == Q_RESET) goto unlock_ret
AfterWriteFail_return == "idle"

AfterWriteFail == "unlock"

\* chnWriteTimeout of the header
SendHeader(t) ==
    /\ s_pc[t] = "header"
    /\ LET hdr == TxHeader(s_seq[t], s_msgid[t], Len(s_payload[t]))
       IN  \/ /\ wire' = wire \o Written(t, hdr, 1, 4)
              /\ s_pc' = [s_pc EXCEPT ![t] =
                             IF Len(s_payload[t]) > 0 THEN "payload" ELSE "crc"]
              /\ UNCHANGED s_ret
           \/ \E r \in {Q_TIMEOUT, Q_RESET}, n \in 0..3 :
                 /\ wire' = wire \o Written(t, hdr, 1, n)
                 /\ s_ret' = [s_ret EXCEPT ![t] = Ret(r)]
                 /\ s_pc' = [s_pc EXCEPT ![t] = AfterWriteFail]
    /\ UNCHANGED <<tx_seq, tx_mutex, s_seq, s_msgid, s_payload, s_call>>
    /\ UNCHANGED notTx

\* chnWriteTimeout of the payload
SendPayload(t) ==
    /\ s_pc[t] = "payload"
    /\ LET p == s_payload[t]
       IN  \/ /\ wire' = wire \o Written(t, p, 5, Len(p))
              /\ s_pc' = [s_pc EXCEPT ![t] = "crc"]
              /\ UNCHANGED s_ret
           \/ \E r \in {Q_TIMEOUT, Q_RESET}, n \in 0..(Len(p) - 1) :
                 /\ wire' = wire \o Written(t, p, 5, n)
                 /\ s_ret' = [s_ret EXCEPT ![t] = Ret(r)]
                 /\ s_pc' = [s_pc EXCEPT ![t] = AfterWriteFail]
    /\ UNCHANGED <<tx_seq, tx_mutex, s_seq, s_msgid, s_payload, s_call>>
    /\ UNCHANGED notTx

\* chnPutTimeout of the crc
SendCrc(t) ==
    /\ s_pc[t] = "crc"
    /\ LET p == s_payload[t]
           crc == TxCrc(TxHeader(s_seq[t], s_msgid[t], Len(p)), p)
       IN  \/ /\ wire' = wire \o Written(t, <<crc>>, 5 + Len(p), 1)
              /\ s_ret' = [s_ret EXCEPT ![t] = Ret(MSG_OK)]
           \/ \E r \in {Q_TIMEOUT, Q_RESET} :
                 /\ s_ret' = [s_ret EXCEPT ![t] = Ret(r)]
                 /\ UNCHANGED wire
    /\ s_pc' = [s_pc EXCEPT ![t] = "unlock"]
    /\ UNCHANGED <<tx_seq, tx_mutex, s_seq, s_msgid, s_payload, s_call>>
    /\ UNCHANGED notTx

\* unlock_ret: chMtxUnlock(); return ret
SendUnlock(t) ==
    /\ s_pc[t] = "unlock"
    /\ tx_mutex' = 0
    /\ s_pc' = [s_pc EXCEPT ![t] = "idle"]
    /\ UNCHANGED <<tx_seq, s_seq, s_msgid, s_payload, s_ret, s_call, wire>>
    /\ UNCHANGED notTx

pbstx_send(t) ==
    \/ \E m \in TxMsgids, p \in TxPayloads : SendLoadSeq(t, m, p)
    \/ SendStoreSeq(t)
    \/ SendLock(t)
    \/ SendHeader(t)
    \/ SendPayload(t)
    \/ SendCrc(t)
    \/ SendUnlock(t)

(* ---------------- pbstx_check_usb ---------------- *)

\* calls of pbstx_check_usb made in all
MaxChecks == 1

\* the thread that calls pbstx_check_usb, as owner of tx_mutex
UsbThread == NumSenders + 1

notUsb == <<rxVars, alert, link, regVars, bcVars, hVars, tVars,
            tx_seq, s_pc, s_seq, s_msgid, s_payload, s_ret, s_call, wire, kVars>>

\* chMtxLock(&tx_mutex) of pbstx_check_usb
UsbMtxFree_any == TRUE

UsbMtxFree == tx_mutex = 0

UsbLock ==
    /\ u_pc = "idle"
    /\ u_calls < MaxChecks
    /\ UsbMtxFree
    /\ tx_mutex' = UsbThread
    /\ u_pc' = "select"
    /\ u_calls' = u_calls + 1
    /\ UNCHANGED m_stream
    /\ UNCHANGED notUsb

\* m_stream = &PBSTX_SDU when the USB driver is active, &PBSTX_SD otherwise
UsbSelect(active) ==
    /\ u_pc = "select"
    /\ m_stream' = IF active THEN "PBSTX_SDU" ELSE "PBSTX_SD"
    /\ u_pc' = "unlock"
    /\ UNCHANGED <<tx_mutex, u_calls>>
    /\ UNCHANGED notUsb

\* chMtxUnlock()
UsbUnlock ==
    /\ u_pc = "unlock"
    /\ tx_mutex' = 0
    /\ u_pc' = "idle"
    /\ UNCHANGED <<m_stream, u_calls>>
    /\ UNCHANGED notUsb

pbstx_check_usb ==
    \/ UsbLock
    \/ \E active \in BOOLEAN : UsbSelect(active)
    \/ UsbUnlock

TxSeqs == {0, 255}

InitTx ==
    /\ RxInit
    /\ SessInit
    /\ UsbInit
    /\ TimeInit
    /\ HInit
    /\ chan = <<>>
    /\ alert = AL_NONE
    /\ link = NoLink
    /\ \E s \in TxSeqs : TxInit(s)
    /\ RegInit
    /\ BcInit

NextTx == \E t \in Senders : pbstx_send(t)

SpecTx == InitTx /\ [][NextTx]_vars

\* one thread sending while another thread selects the medium
NextUsb ==
    \/ pbstx_send(1)
    \/ pbstx_check_usb

SpecUsb == InitTx /\ [][NextUsb]_vars

\* the steps of a call of pbstx_send after its entry
SendStep(t) ==
    \/ SendStoreSeq(t)
    \/ SendLock(t)
    \/ SendHeader(t)
    \/ SendPayload(t)
    \/ SendCrc(t)
    \/ SendUnlock(t)

\* a thread that sends again and again and the thread that selects the
\* medium, each one scheduled again and again
SpecLock ==
    /\ InitTx
    /\ [][NextUsb]_vars
    /\ WF_vars(SendStep(1))
    /\ WF_vars(pbstx_check_usb)

(* ---------------- the peer of the receive channel ---------------- *)

ChanPut(b) ==
    /\ Len(chan) < MaxChan
    /\ chan' = Append(chan, b)
    /\ UNCHANGED <<rx_state, pkt_crc, seq, out_msgid, out_len, out_payload,
                   rx_ret, rx_path, rx_prev, rx_byte, rx_frame, rx_split,
                   terminate, alert, notRx>>

ThdTerminate ==
    /\ ~terminate
    /\ terminate' = TRUE
    /\ UNCHANGED <<rx_state, pkt_crc, seq, chan, out_msgid, out_len,
                   out_payload, rx_ret, rx_path, rx_prev, rx_byte, rx_frame,
                   rx_split, alert, notRx>>

(* ---------------- the loop of th_comm_pbstx on its channel ---------------- *)

\* the session worker whose loop is followed
Sess == 1

\* bytes the peer of the session sends: with them the frame A5 00 00 00 00
\* is valid, and a run of 00 holds no start marker
SessBytes == {HDR_START, 0}

notSess == <<link, txVars, bcVars, hVars, tVars, usbVars>>

\* the loop test passed and the period has elapsed: send_status, send_time =
\* now; then pbstxReceive is called
SessStatus ==
    /\ w_pc[Sess] = "loop"
    /\ k_pc = "top"
    /\ ~w_term[Sess]
    /\ k_elapsed
    /\ k_elapsed' = FALSE
    /\ k_pc' = "recv"
    /\ rx_ret' = NoRet
    /\ w_looped' = [w_looped EXCEPT ![Sess] = TRUE]
    /\ UNCHANGED <<rx_state, pkt_crc, seq, chan, out_msgid, out_len,
                   out_payload, rx_path, rx_prev, rx_byte, rx_frame, rx_split,
                   terminate, alert>>
    /\ UNCHANGED <<m_instances, w_pc, instance_id, w_term, w_ret, w_full,
                   w_wrote, reg_foreign, w_bcasts>>
    /\ UNCHANGED notSess

\* the loop test passed and the period has not elapsed: pbstxReceive is called
SessSkip ==
    /\ w_pc[Sess] = "loop"
    /\ k_pc = "top"
    /\ ~w_term[Sess]
    /\ ~k_elapsed
    /\ k_pc' = "recv"
    /\ rx_ret' = NoRet
    /\ w_looped' = [w_looped EXCEPT ![Sess] = TRUE]
    /\ UNCHANGED <<rx_state, pkt_crc, seq, chan, out_msgid, out_len,
                   out_payload, rx_path, rx_prev, rx_byte, rx_frame, rx_split,
                   terminate, alert, k_elapsed>>
    /\ UNCHANGED <<m_instances, w_pc, instance_id, w_term, w_ret, w_full,
                   w_wrote, reg_foreign, w_bcasts>>
    /\ UNCHANGED notSess

\* one iteration of the loop of the receive function called at line 263
SessReceive ==
    /\ w_pc[Sess] = "loop"
    /\ k_pc = "recv"
    /\ rx_ret = NoRet
    /\ pbstx_receive

\* ret = pbstxReceive(...); if (ret != MSG_OK) continue
AfterReceive(ret) == IF ret = Ret(MSG_OK) THEN "dispatch" ELSE "top"

SessReturn ==
    /\ w_pc[Sess] = "loop"
    /\ k_pc = "recv"
    /\ rx_ret # NoRet
    /\ k_pc' = AfterReceive(rx_ret)
    /\ UNCHANGED <<rxVars, alert, regVars, k_elapsed>>
    /\ UNCHANGED notSess

\* pbstxDecodeType and the handler of the received message
SessDispatch ==
    /\ w_pc[Sess] = "loop"
    /\ k_pc = "dispatch"
    /\ k_pc' = "top"
    /\ UNCHANGED <<rxVars, alert, regVars, k_elapsed>>
    /\ UNCHANGED notSess

\* where the loop test is made: while (!chThdShouldTerminateX())
AtLoopTest_any == TRUE

AtLoopTest == k_pc = "top"

SessExit ==
    /\ AtLoopTest
    /\ WorkerLoopExit(Sess)

\* gp_status_period passes since send_time
SessTick ==
    /\ ~k_elapsed
    /\ k_elapsed' = TRUE
    /\ UNCHANGED <<rxVars, alert, regVars, k_pc>>
    /\ UNCHANGED notSess

\* chThdTerminate on the session worker: the flag its loop test and the loop
\* test of the receive function both read
SessTerminate ==
    /\ w_pc[Sess] = "loop"
    /\ ~w_term[Sess]
    /\ w_term' = [w_term EXCEPT ![Sess] = TRUE]
    /\ terminate' = TRUE
    /\ UNCHANGED <<rx_state, pkt_crc, seq, chan, out_msgid, out_len,
                   out_payload, rx_ret, rx_path, rx_prev, rx_byte, rx_frame,
                   rx_split, alert, kVars>>
    /\ UNCHANGED <<m_instances, w_pc, instance_id, w_ret, w_full, w_looped,
                   w_wrote, reg_foreign, w_bcasts>>
    /\ UNCHANGED notSess

\* the steps of the session worker
SessWorker ==
    \/ WorkerStart(Sess)
    \/ WorkerScan(Sess)
    \/ WorkerClaim(Sess)
    \/ WorkerCheck(Sess)
    \/ SessStatus
    \/ SessSkip
    \/ SessReceive
    \/ SessReturn
    \/ SessDispatch
    \/ SessExit
    \/ WorkerDereg(Sess)
    \/ WorkerFinal(Sess)

(* ---------------- the receiver on an arbitrary byte stream ---------------- *)

InitRx ==
    /\ RxInit
    /\ SessInit
    /\ UsbInit
    /\ TimeInit
    /\ HInit
    /\ chan = <<>>
    /\ alert = AL_NONE
    /\ link = NoLink
    /\ TxInit(0)
    /\ RegInit
    /\ BcInit

NextRx ==
    \/ pbstx_receive
    \/ \E b \in RxBytes : ChanPut(b)
    \/ ThdTerminate

SpecRx == InitRx /\ [][NextRx]_vars

(* ------- the receiver on a corrupted frame followed by a good frame ------- *)

\* longest payload of the frames put on the link
MaxPayload == 2

PayBytes == {0, HDR_START}
LinkMsgids == {0, 1}
LinkSeqs == {0, 255}
Masks == {1, 2, 4, 8, 16, 32, 64, 128, 3, 255}

LinkPayloads == SeqsUpTo(PayBytes, MaxPayload)

Corrupt(f, pos, mask) == [f EXCEPT ![pos] = Xor(@, mask)]

Frame1 == TxFrame(link.s, link.m1, link.p1)
Frame2 == TxFrame((link.s + 1) % 256, link.m2, link.p2)
Consumed == Len(Frame1) + Len(Frame2) - Len(chan)
IsBit(mask) == mask \in {1, 2, 4, 8, 16, 32, 64, 128}
LenPos == 4

InitLink ==
    /\ RxInit
    /\ SessInit
    /\ UsbInit
    /\ TimeInit
    /\ HInit
    /\ alert = AL_NONE
    /\ TxInit(0)
    /\ RegInit
    /\ BcInit
    /\ \E s \in LinkSeqs, m1 \in LinkMsgids, m2 \in LinkMsgids,
          p1 \in LinkPayloads, p2 \in LinkPayloads, mask \in Masks :
          \E pos \in 2..(Len(p1) + 5) :
             /\ link = [on |-> TRUE, s |-> s, m1 |-> m1, p1 |-> p1, m2 |-> m2,
                        p2 |-> p2, pos |-> pos, mask |-> mask]
             /\ chan = Corrupt(TxFrame(s, m1, p1), pos, mask)
                         \o TxFrame((s + 1) % 256, m2, p2)

NextLink ==
    \/ \E r \in {Q_TIMEOUT, Q_RESET} : RxGetFail(r)
    \/ RxIter

SpecLink == InitLink /\ [][NextLink]_vars

(* ---------------- the session workers and the registry ---------------- *)

InitReg ==
    /\ RxInit
    /\ SessInit
    /\ UsbInit
    /\ TimeInit
    /\ HInit
    /\ chan = <<>>
    /\ alert = AL_NONE
    /\ link = NoLink
    /\ TxInit(0)
    /\ RegInit
    /\ BcInit

NextReg ==
    \/ \E w \in Workers : th_comm_pbstx(w)
    \/ \E w \in Workers : WorkerTerminate(w)

SpecReg == InitReg /\ [][NextReg]_vars

(* ---------------- a broadcast over the registered sessions ---------------- *)

\* the registries in which each session holds at most one slot
Registries ==
    {r \in [Slots -> Workers \cup {NULL}] :
        \A i \in Slots, j \in Slots : (i # j /\ r[i] # NULL) => r[i] # r[j]}

SlotOf(r, w) == CHOOSE i \in Slots : r[i] = w

InitBcast ==
    /\ RxInit
    /\ SessInit
    /\ UsbInit
    /\ TimeInit
    /\ HInit
    /\ chan = <<>>
    /\ link = NoLink
    /\ TxInit(0)
    /\ BcInit
    /\ \E r \in Registries :
          LET live == {r[i] : i \in Slots} \ {NULL}
          IN  /\ m_instances = r
              /\ w_pc = [w \in Workers |-> IF w \in live THEN "loop" ELSE "idle"]
              /\ instance_id =
                    [w \in Workers |-> IF w \in live THEN SlotOf(r, w) ELSE 0]
              /\ w_wrote = [w \in Workers |-> w \in live]
              /\ alert = IF live = {} THEN AL_NONE ELSE AL_NORMAL
    /\ w_term = [w \in Workers |-> FALSE]
    /\ w_ret = [w \in Workers |-> NoRet]
    /\ w_full = [w \in Workers |-> FALSE]
    /\ w_looped = [w \in Workers |-> FALSE]
    /\ reg_foreign = FALSE
    /\ w_bcasts = [w \in Workers |-> 0]

NextBcast == pbstxEncodeSendBroadcast

SpecBcast == InitBcast /\ [][NextBcast]_vars

(* ---------------- the handlers on the messages of one session ---------------- *)

InitDisp ==
    /\ RxInit
    /\ SessInit
    /\ UsbInit
    /\ TimeInit
    /\ chan = <<>>
    /\ alert = AL_NORMAL
    /\ link = NoLink
    /\ TxInit(0)
    /\ RegInit
    /\ BcInit
    /\ gp_engine_id \in GpIds
    /\ gp_debug_enable_memdump \in BOOLEAN
    /\ p_count \in 0..MaxParams
    /\ p_valid \in SUBSET (0..(p_count - 1))
    /\ p_val = [i \in 1..p_count |-> 0]
    /\ h_pc = "idle"
    /\ h_field = NoField
    /\ h_in = NoBody
    /\ h_log = <<>>
    /\ h_before = [p_val |-> p_val, alert |-> alert]
    /\ h_addr = 0
    /\ h_rem = 0
    /\ h_exact = TRUE

NextDisp ==
    \/ \E stream \in Streams : DecodeType(stream)
    \/ \E m \in Bodies(h_field) : Dispatch(m)
    \/ DispatchEnd
    \/ MemDumpPage
    \/ MemDumpEnd

SpecDisp == InitDisp /\ [][NextDisp]_vars

(* ---------------- time synchronisation between two endpoints ---------------- *)

InitTime ==
    /\ RxInit
    /\ SessInit
    /\ UsbInit
    /\ HInit
    /\ chan = <<>>
    /\ alert = AL_NONE
    /\ link = NoLink
    /\ TxInit(0)
    /\ RegInit
    /\ BcInit
    /\ t_gp \in [Endpoints -> GpIds]
    /\ t_net = [e \in Endpoints |-> <<>>]
    /\ t_reqs = [sent |-> 0, plain |-> 0]
    /\ t_replies = 0
    /\ t_sets = 0
    /\ t_last = NoLast

NextTime ==
    \/ \E e \in Endpoints, m \in TimeReferences : TimePut(e, m)
    \/ \E e \in Endpoints : TimeHandle(e)

\* each endpoint's worker keeps handling what it receives
SpecTime ==
    InitTime /\ [][NextTime]_vars /\ WF_vars(\E e \in Endpoints : TimeHandle(e))

(* ---------------- one session worker and the peer of its channel ---------------- *)

InitSess ==
    /\ RxInit
    /\ UsbInit
    /\ HInit
    /\ TimeInit
    /\ SessInit
    /\ chan = <<>>
    /\ alert = AL_NONE
    /\ link = NoLink
    /\ TxInit(0)
    /\ RegInit
    /\ BcInit

NextSess ==
    \/ SessWorker
    \/ \E b \in SessBytes : ChanPut(b)
    \/ SessTick
    \/ SessTerminate

\* the worker thread keeps running and time keeps passing
SpecSess ==
    InitSess /\ [][NextSess]_vars /\ WF_vars(SessWorker) /\ WF_vars(SessTick)

(* ---------------- properties of pbstx_receive ---------------- *)

\* C1: when the receiver reads the trailing CRC byte of a frame it returns
\* MSG_OK and signals ALS_COMM normal exactly when that byte is the CRC-8
\* accumulated from 0 over sequence, message-id, length and payload, returns
\* MSG_RESET and signals ALS_COMM fail otherwise, and is in PR_WAIT_START.
C1_CrcVerdict ==
    (rx_path = "byte" /\ rx_prev = PR_CRC) =>
        /\ Len(rx_frame) >= 3
        /\ rx_frame[3] = Len(rx_frame) - 3
        /\ rx_state = PR_WAIT_START
        /\ IF rx_byte = PIOS_CRC_updateCRC(0, rx_frame)
           THEN rx_ret = Ret(MSG_OK) /\ alert = AL_NORMAL
           ELSE rx_ret = Ret(MSG_RESET) /\ alert = AL_FAIL

C1_Witness ==
    /\ rx_path = "byte"
    /\ rx_prev = PR_CRC
    /\ Len(rx_frame) = 4
    /\ rx_ret = Ret(MSG_OK)

\* the stream was consumed up to its end by a read (not yet by a read that
\* found the queue empty)
LinkDrained == link.on /\ chan = <<>> /\ rx_path # "get_fail"

SecondDecoded ==
    /\ rx_ret = Ret(MSG_OK)
    /\ out_msgid = link.m2
    /\ out_len = Len(link.p2)
    /\ Len(out_payload) >= out_len
    /\ SubSeq(out_payload, 1, out_len) = link.p2

\* C2 as claimed: for any corruption of the first frame after its start
\* marker, the second frame is decoded with MSG_OK once the stream is
\* consumed, and MSG_OK is never returned before that.
C2_ResyncAnyCorruption ==
    link.on =>
        /\ (rx_ret = Ret(MSG_OK) => chan = <<>>)
        /\ (LinkDrained => SecondDecoded)

\* C2 amended: when the corrupted byte is not the length byte, the first
\* frame is refused with MSG_RESET at its CRC byte and the second frame is
\* decoded with MSG_OK, its message-id, length and payload.
C2_ResyncLengthIntact ==
    (link.on /\ link.pos # LenPos) =>
        /\ (rx_ret = Ret(MSG_OK) => chan = <<>>)
        /\ (Consumed = Len(Frame1) /\ rx_path = "byte" => rx_ret = Ret(MSG_RESET))
        /\ (LinkDrained => SecondDecoded)

C2_Witness ==
    /\ LinkDrained
    /\ link.pos # LenPos
    /\ SecondDecoded
    /\ Len(link.p1) > 0
    /\ Len(link.p2) > 0

\* C3 as claimed: whichever bit of the sent frame is flipped after the start
\* marker, the receiver returns MSG_RESET at the end of the frame and never
\* MSG_OK within it.
C3_AnyBitFlip ==
    (link.on /\ IsBit(link.mask)) =>
        /\ (Consumed <= Len(Frame1) => rx_ret # Ret(MSG_OK))
        /\ (Consumed = Len(Frame1) /\ rx_path = "byte" =>
                rx_ret = Ret(MSG_RESET) /\ alert = AL_FAIL)

\* C3 amended: a bit flipped in the sequence, message-id, payload or crc
\* byte makes the receiver return MSG_RESET with ALS_COMM fail at the crc
\* byte, and MSG_OK is not returned for the altered frame.
C3_BitFlipLengthIntact ==
    (link.on /\ IsBit(link.mask) /\ link.pos # LenPos) =>
        /\ (Consumed <= Len(Frame1) => rx_ret # Ret(MSG_OK))
        /\ (Consumed = Len(Frame1) /\ rx_path = "byte" =>
                /\ rx_prev = PR_CRC
                /\ rx_ret = Ret(MSG_RESET)
                /\ alert = AL_FAIL)

C3_Witness ==
    /\ link.on
    /\ IsBit(link.mask)
    /\ link.pos = 3
    /\ Consumed = Len(Frame1)
    /\ rx_path = "byte"
    /\ rx_ret = Ret(MSG_RESET)

\* a frame was in progress at the top of the iteration that returned
InProgress == rx_prev \in {PR_SEQ, PR_MSGID, PR_LEN, PR_PAYLOAD, PR_CRC}

\* C6 as claimed: a return of Q_TIMEOUT or Q_RESET from a channel read while
\* a frame is in progress has signalled ALS_COMM fail and left the receiver
\* in PR_WAIT_START.
C6_MidFrameTimeoutResets ==
    (rx_path \in {"get_fail", "payload_fail"} /\ InProgress) =>
        alert = AL_FAIL /\ rx_state = PR_WAIT_START

\* C6 amended: a failed bulk read of the payload returns Q_TIMEOUT or
\* Q_RESET with ALS_COMM fail signalled and the receiver in PR_WAIT_START; a
\* failed single-byte read returns with the receiver state unchanged.
C6_PayloadTimeoutResets ==
    /\ rx_path = "payload_fail" =>
            /\ rx_prev = PR_LEN
            /\ rx_ret \in {Ret(Q_TIMEOUT), Ret(Q_RESET)}
            /\ alert = AL_FAIL
            /\ rx_state = PR_WAIT_START
    /\ rx_path = "get_fail" =>
            /\ rx_ret \in {Ret(Q_TIMEOUT), Ret(Q_RESET)}
            /\ rx_state = rx_prev

C6_Witness ==
    /\ rx_path = "payload_fail"
    /\ rx_ret = Ret(Q_TIMEOUT)
    /\ rx_frame = <<0, 0, 1>>

(* ---------------- properties of pbstx_send ---------------- *)

SameCall(a, b) == a[1] = b[1] /\ a[2] = b[2]

\* C4: the bytes one call of pbstx_send writes form one contiguous run of
\* the channel, in frame order; no byte of another call lies between them.
C4_FrameContiguous ==
    \A i \in 1..Len(wire) : \A k \in i..Len(wire) :
        SameCall(wire[i], wire[k]) =>
            \A j \in i..k : /\ SameCall(wire[i], wire[j])
                             /\ wire[j][3] = wire[i][3] + (j - i)

C4_Witness ==
    \E t \in Senders, u \in Senders :
        /\ t # u
        /\ tx_mutex = u
        /\ s_pc[u] = "crc"
        /\ s_pc[t] = "lock"
        /\ \E i \in 1..Len(wire) : wire[i][1] = u

IsSeqByte(e) == e[3] = 2
SeqBytes == SelectSeq(wire, IsSeqByte)

\* C5: the sequence byte of each frame on the channel is the sequence byte
\* of the frame written before it plus 1 modulo 256, and no two frames carry
\* the same sequence byte.
C5_SeqSuccessive ==
    /\ \A i \in 1..(Len(SeqBytes) - 1) :
          SeqBytes[i + 1][4] = (SeqBytes[i][4] + 1) % 256
    /\ \A i \in 1..Len(SeqBytes) : \A j \in 1..Len(SeqBytes) :
          i # j => SeqBytes[i][4] # SeqBytes[j][4]

(* ---------------- properties of the instance registry ---------------- *)

\* the thread has passed registration and has not yet deregistered
Registered(w) == w_pc[w] \in {"loop", "dereg"}

\* C7: at most MAX_INSTANCES slots are taken, every registered worker has
\* its own session in the slot numbered by its instance_id, no two registered
\* workers share a slot, and a deregistration clears only a slot that holds
\* the worker's own session.
C7_ExclusiveOwnership ==
    /\ Cardinality({i \in Slots : m_instances[i] # NULL}) <= MAX_INSTANCES
    /\ \A w \in Workers :
          Registered(w) => /\ instance_id[w] \in Slots
                           /\ m_instances[instance_id[w]] = w
    /\ \A w \in Workers, v \in Workers :
          (w # v /\ Registered(w) /\ Registered(v)) =>
              instance_id[w] # instance_id[v]
    /\ ~reg_foreign

\* C8: a worker started while every slot is taken (none being cleared during
\* its scan) returns MSG_RESET; a worker that returns MSG_RESET has run no
\* iteration of its loop, has stored to no slot and has neither sent status
\* nor reached the final broadcast.
C8_ExhaustionFails ==
    \A w \in Workers :
        /\ w_full[w] =>
              /\ w_pc[w] \in {"scan", "check", "done"}
              /\ w_pc[w] = "check" => instance_id[w] = MAX_INSTANCES
              /\ w_pc[w] = "done" => w_ret[w] = Ret(MSG_RESET)
        /\ (w_full[w] \/ w_ret[w] = Ret(MSG_RESET)) =>
              /\ ~w_looped[w]
              /\ ~w_wrote[w]
              /\ \A i \in Slots : m_instances[i] # w

C8_Witness ==
    \E w \in Workers :
        /\ w_full[w]
        /\ w_pc[w] = "done"
        /\ w_ret[w] = Ret(MSG_RESET)
        /\ \A i \in Slots : m_instances[i] \notin {NULL, w}

(* ---------------- properties of pbstxEncodeSendBroadcast ---------------- *)

Live == {i \in Slots : m_instances[i] # NULL}

Failed == {k \in 1..Len(bc_log) : bc_log[k].sret < 0}

LastFailed == CHOOSE k \in Failed : \A j \in Failed : j <= k

\* C9: the broadcast makes its send call once for every live session, in
\* slot order, whichever calls fail, and returns MSG_OK when none failed and
\* the failure code of the last failed one otherwise.
C9_BestEffort ==
    bc_pc = "done" =>
        /\ Len(bc_log) = Cardinality(Live)
        /\ {bc_log[k].slot : k \in 1..Len(bc_log)} = Live
        /\ \A k \in 1..Len(bc_log) : bc_log[k].dev = m_instances[bc_log[k].slot]
        /\ \A k \in 1..(Len(bc_log) - 1) : bc_log[k].slot < bc_log[k + 1].slot
        /\ EncodeOk(bc_msg) => \A k \in 1..Len(bc_log) : bc_log[k].sent
        /\ bc_ret = IF Failed = {} THEN MSG_OK ELSE bc_log[LastFailed].sret

C9_Witness ==
    /\ bc_pc = "done"
    /\ Len(bc_log) = 2
    /\ bc_log[1].sent /\ bc_log[1].sret = Q_TIMEOUT
    /\ bc_log[2].sent /\ bc_log[2].sret = MSG_OK
    /\ bc_ret = Q_TIMEOUT

\* the sessions after the first are sent what the first was sent
SameAsFirst ==
    \A k \in 2..Len(bc_log) :
        /\ bc_log[k].kind = "send"
        /\ bc_log[k].sent
        /\ bc_log[k].payload = bc_log[1].payload
        /\ bc_log[k].size = bc_log[1].size

\* C10 as claimed: over k >= 1 live sessions the submessage is encoded
\* exactly once, for the first live session, and every other live session is
\* sent the same encoded bytes and size, whatever the first encode gave.
C10_EncodeOnceAlways ==
    (bc_pc = "done" /\ Live # {}) =>
        /\ bc_enc = 1
        /\ bc_log[1].kind = "encode_send"
        /\ SameAsFirst

\* C10 amended: when the encode succeeds the submessage is encoded exactly
\* once, for the first live session, and every other live session is sent
\* the same encoded bytes and size whatever the sends return; when the encode
\* fails it is attempted again for every live session and nothing is sent.
C10_EncodeOnceOnSuccess ==
    (bc_pc = "done" /\ Live # {}) =>
        IF EncodeOk(bc_msg)
        THEN /\ bc_enc = 1
             /\ bc_log[1].kind = "encode_send"
             /\ bc_log[1].sent
             /\ bc_log[1].payload = Encoded(bc_msg)
             /\ bc_log[1].size = Len(Encoded(bc_msg))
             /\ SameAsFirst
        ELSE /\ bc_enc = Cardinality(Live)
             /\ \A k \in 1..Len(bc_log) :
                   /\ bc_log[k].kind = "encode_send"
                   /\ ~bc_log[k].sent
                   /\ bc_log[k].sret = MSG_RESET

C10_Witness ==
    /\ bc_pc = "done"
    /\ EncodeOk(bc_msg)
    /\ Len(bc_log) = 2
    /\ bc_log[1].sret = MSG_RESET
    /\ bc_log[2].kind = "send"
    /\ bc_enc = 1

(* ---------------- properties of the protocol handlers ---------------- *)

\* the handler made no call and changed neither a parameter nor the alert
NoEffect ==
    /\ h_log = <<>>
    /\ p_val = h_before.p_val
    /\ alert = h_before.alert

\* C11: a Command or ParamSet that decodes and whose engine_id differs from
\* gp_engine_id makes the handler call neither command_request nor param_set,
\* send no reply, broadcast nothing and change no state.
C11_IdentityFiltering ==
    (/\ h_pc = "done"
     /\ h_field \in {"Command", "ParamSet"}
     /\ h_in.ok
     /\ h_in.engine_id # gp_engine_id) => NoEffect

C11_Witness ==
    /\ h_pc = "done"
    /\ h_field = "ParamSet"
    /\ h_in.ok
    /\ h_in.engine_id = 0
    /\ gp_engine_id = 1
    /\ h_in.param_id \in p_valid
    /\ NoEffect

\* C12: a Command that has its response field set is dropped by recv_command
\* whatever its engine_id and operation (command_request is not called and
\* nothing is sent), and every Command recv_command sends has the response
\* field set.
C12_EchoSuppression ==
    /\ (/\ h_pc = "done"
        /\ h_field = "Command"
        /\ h_in.ok
        /\ h_in.has_response) => NoEffect
    /\ \A k \in 1..Len(h_log) :
          (h_log[k].op = "send" /\ h_log[k].type = "Command") =>
              h_log[k].msg.has_response

C12_Witness ==
    /\ h_pc = "done"
    /\ h_field = "Command"
    /\ h_in.ok
    /\ h_in.has_response
    /\ h_in.engine_id = gp_engine_id
    /\ NoEffect

\* the request is for every parameter and is addressed to this engine or to all
IsDumpRequest ==
    /\ h_field = "ParamRequest"
    /\ h_in.ok
    /\ h_in.engine_id \in {0, gp_engine_id}
    /\ ~h_in.has_param_id
    /\ ~h_in.has_param_index

\* C14: a ParamRequest for engine 0 or gp_engine_id with neither param_id nor
\* param_index makes exactly one ParamValue broadcast for each index whose
\* lookup succeeds, in increasing index order, each with param_count equal to
\* the number of parameters and param_index equal to that index; an index
\* whose lookup fails is left out and the later indexes are still broadcast.
C14_FullDump ==
    (h_pc = "done" /\ IsDumpRequest) =>
        /\ Len(h_log) = Cardinality(p_valid)
        /\ \A k \in 1..Len(h_log) :
              /\ h_log[k].op = "bcast"
              /\ h_log[k].type = "ParamValue"
              /\ h_log[k].msg.param_count = p_count
              /\ h_log[k].msg.param_index \in p_valid
              /\ h_log[k].msg.engine_id = gp_engine_id
        /\ \A k \in 1..(Len(h_log) - 1) :
              h_log[k].msg.param_index < h_log[k + 1].msg.param_index
        /\ p_val = h_before.p_val

C14_Witness ==
    /\ h_pc = "done"
    /\ IsDumpRequest
    /\ h_in.engine_id = 0
    /\ gp_engine_id = 1
    /\ p_count = 3
    /\ p_valid = {0, 2}
    /\ Len(h_log) = 2
    /\ h_log[2].msg.param_index = 2

\* the dump request passed the filters of recv_memory_dump_request
DumpRuns ==
    /\ h_field = "MemoryDumpRequest"
    /\ gp_debug_enable_memdump
    /\ h_pc \in {"memdump", "done"}
    /\ h_in.ok
    /\ h_in.engine_id = gp_engine_id
    /\ h_in.type \in {"RAM", "FLASH"}

IsPage(e) == e.op = "send" /\ e.type = "MemoryDumpPage"
Pages == SelectSeq(h_log, IsPage)
IsError(e) == e.op = "bcast"

RECURSIVE PageBytes(_, _)
PageBytes(ps, n) == IF n = 0 THEN 0 ELSE ps[n].msg.size + PageBytes(ps, n - 1)

CeilDiv(a, b) == (a + b - 1) \div b
Min(a, b) == IF a < b THEN a ELSE b

\* C15: every page carries at least one byte and the address reached so far,
\* and bytes_rem is the requested size less the bytes of the pages sent, so it
\* decreases at each page; after a non-positive result of the reader the
\* handler has returned and no page follows; when the reader returns what it
\* is asked for, a dump of size bytes at base ends with ceil(size/64) pages,
\* page i at base + 64*i with min(64, remaining) bytes.
C15_DumpChunking ==
    DumpRuns =>
        /\ h_rem = h_in.size - PageBytes(Pages, Len(Pages))
        /\ h_addr = h_in.address + PageBytes(Pages, Len(Pages))
        /\ \A i \in 1..Len(Pages) :
              /\ Pages[i].msg.size >= 1
              /\ Pages[i].msg.address = h_in.address + PageBytes(Pages, i - 1)
              /\ Pages[i].msg.stream_id = h_in.stream_id
        /\ \A k \in 1..Len(h_log) :
              IsError(h_log[k]) => (k = Len(h_log) /\ h_pc = "done")
        /\ (h_pc = "done" /\ (h_log = <<>> \/ ~IsError(h_log[Len(h_log)]))) =>
              h_rem <= 0
        /\ h_exact =>
              /\ \A i \in 1..Len(Pages) :
                    /\ Pages[i].msg.address =
                          h_in.address + (MEMDUMP_SIZE * (i - 1))
                    /\ Pages[i].msg.size =
                          Min(MEMDUMP_SIZE,
                              h_in.size - (MEMDUMP_SIZE * (i - 1)))
              /\ (h_pc = "done" /\ h_rem <= 0) =>
                    Len(Pages) = CeilDiv(h_in.size, MEMDUMP_SIZE)

C15_Witness ==
    /\ DumpRuns
    /\ h_pc = "done"
    /\ h_exact
    /\ h_in.size = 130
    /\ Len(Pages) = 3
    /\ Pages[3].msg.size = 2
    /\ Pages[3].msg.address = h_in.address + 128

\* C19: a received payload in which pbstxDecodeType finds no submessage, or
\* finds one th_comm_pbstx has no handler for, or finds MemoryDumpRequest
\* while gp_debug_enable_memdump is false, runs no handler: no collaborator
\* or memory reader is called, nothing is sent or broadcast and ALS_COMM is
\* not signalled.
C19_UnmatchedIgnored ==
    (/\ h_pc # "idle"
     /\ \/ h_field \in {NoField, "Status"}
        \/ h_field = "MemoryDumpRequest" /\ ~gp_debug_enable_memdump) =>
        /\ h_pc \in {"decoded", "done"}
        /\ NoEffect

C19_Witness ==
    /\ h_pc = "done"
    /\ h_field = "MemoryDumpRequest"
    /\ ~gp_debug_enable_memdump
    /\ h_in.ok
    /\ h_in.engine_id = gp_engine_id
    /\ h_in.type = "RAM"
    /\ h_in.size = 130
    /\ NoEffect

(* ---------------- properties of the time synchronisation ---------------- *)

TimeQuiet == \A e \in Endpoints : t_net[e] = <<>>

TimeSafe ==
    /\ (t_last.to # 0 /\ t_last.msg.has_timediff) =>
          (t_last.reply = <<>> /\ ~t_last.set)
    /\ \A k \in 1..Len(t_last.reply) : t_last.reply[k].has_timediff
    /\ t_replies <= t_reqs.plain
    /\ t_sets = t_replies

\* C13: a TimeReference that carries a diff makes recv_time_reference send no
\* reply and not call time_set_timestamp; every reply it sends carries a
\* diff; between two connected endpoints there are never more replies than
\* requests, and the exchange ends with no message left on the link.
C13_NoLoopTimeSync == []TimeSafe /\ <>[]TimeQuiet

C13_Witness ==
    /\ t_last.to # 0
    /\ t_last.msg.has_timediff
    /\ t_last.msg.has_system_time
    /\ t_last.msg.engine_id = t_gp[t_last.to]
    /\ t_last.reply = <<>>
    /\ t_replies = 1
    /\ TimeQuiet

(* ---------------- the receiver across calls ---------------- *)

\* C20: a single-byte read that fails after part of a frame was consumed
\* returns Q_TIMEOUT or Q_RESET with the receiver state unchanged; the
\* running CRC kept between calls is the CRC of the frame bytes consumed so
\* far; and a frame that was interrupted by such a return is accepted with
\* MSG_OK when the byte read in PR_CRC matches the CRC of its bytes.
C20_StatePersists ==
    /\ (rx_path = "get_fail" /\ rx_prev \in {PR_SEQ, PR_MSGID, PR_LEN, PR_CRC}) =>
          /\ rx_state = rx_prev
          /\ rx_ret \in {Ret(Q_TIMEOUT), Ret(Q_RESET)}
          /\ rx_split
    /\ rx_state \in {PR_MSGID, PR_LEN, PR_CRC} =>
          pkt_crc = PIOS_CRC_updateCRC(0, rx_frame)
    /\ (/\ rx_split
        /\ rx_path = "byte"
        /\ rx_prev = PR_CRC
        /\ rx_byte = PIOS_CRC_updateCRC(0, rx_frame)) =>
          (rx_ret = Ret(MSG_OK) /\ rx_state = PR_WAIT_START)

C20_Witness ==
    /\ rx_split
    /\ rx_path = "byte"
    /\ rx_prev = PR_CRC
    /\ rx_ret = Ret(MSG_OK)
    /\ Len(rx_frame) = 4

(* ---------------- properties of pbstx_check_usb ---------------- *)

\* a caller of pbstx_send is between its lock and its unlock
Sending(t) == s_pc[t] \in {"header", "payload", "crc", "unlock"}

\* C18: all bytes one call of pbstx_send writes go to the same channel, and
\* while pbstx_check_usb is between its lock and its unlock it owns tx_mutex
\* and no caller of pbstx_send is writing a frame.
C18_OneChannelPerFrame ==
    /\ \A i \in 1..Len(wire) : \A k \in 1..Len(wire) :
          SameCall(wire[i], wire[k]) => wire[i][5] = wire[k][5]
    /\ u_pc \in {"select", "unlock"} =>
          /\ tx_mutex = UsbThread
          /\ \A t \in Senders : ~Sending(t)

C18_Witness ==
    \E i \in 1..Len(wire) : \E k \in 1..Len(wire) :
        /\ wire[i][3] = 5
        /\ wire[i][5] = "PBSTX_SD"
        /\ wire[k][3] = 6
        /\ wire[k][5] = "PBSTX_SDU"

(* ---------------- properties of the session worker ---------------- *)

\* C16: when termination of the session worker is never requested,
\* send_status is called again and again, whatever bytes arrive on its
\* channel.
C16_StatusInfinitelyOften ==
    []~w_term[Sess] => []<><<SessStatus>>_vars

\* the worker has left its loop
LeftLoop == w_pc[Sess] \in {"dereg", "final", "done"} /\ w_wrote[Sess]

ShutdownSafe ==
    /\ LeftLoop => (w_term[Sess] /\ k_pc = "top")
    /\ (LeftLoop /\ w_pc[Sess] \in {"final", "done"}) =>
          m_instances[instance_id[Sess]] = NULL
    /\ (LeftLoop /\ w_pc[Sess] \in {"dereg", "final"}) =>
          (w_bcasts[Sess] = 0 /\ w_ret[Sess] = NoRet)
    /\ (LeftLoop /\ w_pc[Sess] = "done") =>
          (w_bcasts[Sess] = 1 /\ w_ret[Sess] = Ret(MSG_OK))
    /\ ~LeftLoop => w_bcasts[Sess] = 0

\* C17: once termination of the registered session worker is requested it
\* leaves its loop, clears its slot of m_instances, then makes its one final
\* debug_printf broadcast and returns MSG_OK; after it left the loop it reads
\* nothing from its channel and dispatches no handler.
C17_CooperativeShutdown ==
    /\ []ShutdownSafe
    /\ [][LeftLoop => /\ UNCHANGED <<rx_state, pkt_crc, out_msgid, out_len,
                                     out_payload, rx_ret, k_pc>>
                      /\ Len(chan') >= Len(chan)]_vars
    /\ (w_term[Sess] ~> (w_pc[Sess] = "done" /\ w_ret[Sess] = Ret(MSG_OK)))

C17_Witness ==
    /\ w_pc[Sess] = "done"
    /\ w_ret[Sess] = Ret(MSG_OK)
    /\ w_bcasts[Sess] = 1
    /\ Len(chan) = MaxChan
    /\ rx_state = PR_MSGID

\* C21: tx_mutex is owned only by a thread that is between its chMtxLock and
\* its chMtxUnlock: a call of pbstx_send that has returned, by a timeout of
\* the header, the payload or the crc or with MSG_OK, and a call of
\* pbstx_check_usb that has returned, do not own it; every return leaves it
\* free; and a call that waits for the mutex gets it, every call returning.
Inside(t) == s_pc[t] \in {"header", "payload", "crc", "unlock"}

LockHeldInside ==
    /\ \A t \in Senders : tx_mutex = t => Inside(t)
    /\ tx_mutex = UsbThread => u_pc \in {"select", "unlock"}
    /\ tx_mutex \in {0, UsbThread} \cup Senders

ReturnsFree ==
    /\ \A t \in Senders :
          (s_pc[t] # "idle" /\ s_pc'[t] = "idle") => tx_mutex' = 0
    /\ (u_pc # "idle" /\ u_pc' = "idle") => tx_mutex' = 0

C21_LockReleased ==
    /\ []LockHeldInside
    /\ [][ReturnsFree]_vars
    /\ \A t \in Senders : (s_pc[t] = "lock") ~> (tx_mutex = t)
    /\ \A t \in Senders : (s_pc[t] # "idle") ~> (s_pc[t] = "idle")
    /\ (u_pc # "idle") ~> (u_pc = "idle")

\* the first send of a thread failed in its header, pbstx_check_usb has run,
\* and the second send of the thread holds the mutex
C21_Witness ==
    /\ s_call[1] = 2
    /\ tx_mutex = 1
    /\ u_calls = 1 /\ u_pc = "idle"
    /\ Cardinality({i \in 1..Len(wire) : wire[i][2] = 1}) < 4

\* C22: rx_state is not PR_PAYLOAD at the top of an iteration of the loop of
\* pbstx_receive nor when it returns; every byte the receiver takes from the
\* channel after the sequence byte of a frame is a byte of that frame, none
\* being dropped; and a length byte of zero takes the receiver to PR_CRC with
\* no read of a payload, the frame of three header bytes being accepted.
NotAtPayload ==
    /\ rx_state # PR_PAYLOAD
    /\ rx_prev # PR_PAYLOAD
    /\ (rx_ret = Ret(MSG_OK) /\ rx_path = "byte" /\ out_len = 0) =>
          rx_frame = <<seq, out_msgid, 0>>

Taken == Len(chan) - Len(chan')

NoByteDropped ==
    (rx_state \in {PR_MSGID, PR_LEN, PR_PAYLOAD} /\ Taken > 0) =>
        rx_frame' = rx_frame \o SubSeq(chan, 1, Taken)

ZeroLenSkipsPayload ==
    (rx_state = PR_LEN /\ Taken > 0 /\ Head(chan) = 0) =>
        /\ Taken = 1
        /\ rx_state' = PR_CRC
        /\ rx_ret' = NoRet
        /\ UNCHANGED <<out_payload, alert>>

C22_NeverAtPayload ==
    /\ []NotAtPayload
    /\ [][NoByteDropped /\ ZeroLenSkipsPayload]_vars

\* a frame with a payload was read in the iteration that took its length
\* byte, and a frame of length zero was accepted
C22_Witness ==
    /\ rx_ret = Ret(MSG_OK)
    /\ rx_path = "byte"
    /\ rx_prev = PR_CRC
    /\ out_len = 0
    /\ out_payload # <<>>

====
